---- MODULE Spec2Model ----
(***************************************************************************)
(* Website Traffic Trend Analyzer (src/index.py): the module-level dataset *)
(* df and the Dash callback update_dashboard, which filters df by the two  *)
(* dropdown values and derives three grouped tables (by date, by page, by  *)
(* device).  A figure is modelled by the table handed to plotly.           *)
(*                                                                         *)
(* Modelling conventions                                                   *)
(*  - a record of df is [date, page, visits, device, location]; a date is  *)
(*    its day offset from 2025-07-01;                                      *)
(*  - a dropdown value is None or a list; isin() and truthiness only see   *)
(*    the set of items of a list, so a list is modelled by that set;       *)
(*  - line 11 calls pd.Series(range(90)).sin(); it is read as the          *)
(*    elementwise sine (see SampleVisits).                                 *)
(***************************************************************************)
EXTENDS Integers, Sequences, FiniteSets, TLC

VARIABLES
    pc,           \* "start" before the module body ran, "ready" after line 17
    df,           \* the module-level DataFrame (line 17)
    cpc,          \* per caller: position inside update_dashboard
    args,         \* per caller: (selected_devices, selected_locations) of its call
    filtered_df,  \* per caller: the local filtered_df
    ret           \* per caller: the tables of the figures returned by its last call

vars == <<pc, df, cpc, args, filtered_df, ret>>

(***************************************************************************)
(* Bounds of the generic dataset                                           *)
(***************************************************************************)
MaxLen == 2

GenDates == {0, 1}
GenPages == {"Home", "Contact"}
AllPages == {"Home", "Products", "Contact"}
GenVisits == {0, 1}
GenDevices == {"Desktop", "Mobile"}
GenLocations == {"India", "USA"}
\* values offered to the two filters: one present in the data, one absent
GenDevicePool == {"Desktop", "Smartwatch"}
GenLocationPool == {"USA", "Mars"}

\* values offered to the two filters against the built-in dataset
BuiltinDevicePool == {"Desktop", "Mobile"}
BuiltinLocationPool == {"India", "USA"}

Callers == {1, 2}

(***************************************************************************)
(* Python values                                                           *)
(***************************************************************************)
None == [none |-> TRUE, items |-> {}]

List(S) == [none |-> FALSE, items |-> S]

FilterValues(pool) == {None} \cup {List(S) : S \in SUBSET pool}

\* truth value of a dropdown value in `if selected_devices:` (None and [] are falsy)
Truthy(v) == ~v.none /\ v.items # {}

NoArgs == [none |-> TRUE]
NoRet == [none |-> TRUE]

(***************************************************************************)
(* The built-in dataset, lines 7-17                                        *)
(***************************************************************************)
Periods == 30
NumRecords == 90

PageList == <<"Home", "Products", "Contact">>
DeviceList == <<"Desktop", "Mobile", "Tablet">>
LocationList == <<"India", "USA", "UK">>

\* abs(int(100 + 50 * sin(i))) for i = 0..89
SampleVisits ==
    <<100, 142, 145, 107, 62, 52, 86, 132, 149, 120,
      72, 50, 73, 121, 149, 132, 85, 51, 62, 107,
      145, 141, 99, 57, 54, 93, 138, 147, 113, 66,
      50, 79, 127, 149, 126, 78, 50, 67, 114, 148,
      137, 92, 54, 58, 100, 142, 145, 106, 61, 52,
      86, 133, 149, 119, 72, 50, 73, 121, 149, 131,
      84, 51, 63, 108, 146, 141, 98, 57, 55, 94,
      138, 147, 112, 66, 50, 80, 128, 149, 125, 77,
      50, 68, 115, 148, 136, 91, 53, 58, 101, 143>>

\* date_range(periods=30).tolist() * 3: row i (from 0) holds day i mod 30
SampleDate(i) == i % Periods

\* ["Home", "Products", "Contact"] * 30
SamplePage(i) == PageList[(i % Len(PageList)) + 1]

\* mutant: ["Desktop", "Mobile"] * 45
SampleDeviceTwo(i) == DeviceList[(i % 2) + 1]

\* ["Desktop", "Mobile", "Tablet"] * 30
SampleDevice(i) == DeviceList[(i % Len(DeviceList)) + 1]

\* ["India", "USA", "UK"] * 30
SampleLocation(i) == LocationList[(i % Len(LocationList)) + 1]

sample_data ==
    [i \in 1..NumRecords |->
        [date |-> SampleDate(i - 1),
         page |-> SamplePage(i - 1),
         visits |-> SampleVisits[i],
         device |-> SampleDevice(i - 1),
         location |-> SampleLocation(i - 1)]]

(***************************************************************************)
(* pandas operations used by update_dashboard                              *)
(***************************************************************************)
\* lexicographic order of the labels, as pandas sorts object keys
LabelOrder ==
    <<"Contact", "Desktop", "Home", "India", "Mars", "Mobile",
      "Products", "Smartwatch", "Tablet", "UK", "USA">>

LabelRank(s) == CHOOSE i \in 1..Len(LabelOrder) : LabelOrder[i] = s

\* the sort key of a group key: dates by day, labels lexicographically
KeyRank(col, k) == IF col = "date" THEN k ELSE LabelRank(k)

\* frame[frame[col].isin(sel)]: boolean-mask selection keeps row order
IsIn(frame, col, sel) == SelectSeq(frame, LAMBDA r : r[col] \in sel.items)

\* mutant: `if selected is not None:` instead of `if selected:`
ApplyFilterNotNone(frame, col, sel) ==
    IF ~sel.none THEN IsIn(frame, col, sel) ELSE frame

\* mutant: a filter that matches nothing is skipped
ApplyFilterFallback(frame, col, sel) ==
    IF Truthy(sel) /\ IsIn(frame, col, sel) # <<>> THEN IsIn(frame, col, sel) ELSE frame

\* lines 90-91 / 94-95: the filter is applied only for a truthy value
ApplyFilter(frame, col, sel) ==
    IF Truthy(sel) THEN IsIn(frame, col, sel) ELSE frame

RECURSIVE SumVisits(_)
SumVisits(frame) ==
    IF frame = <<>> THEN 0
    ELSE Head(frame).visits + SumVisits(Tail(frame))

Keys(frame, col) == {frame[i][col] : i \in DOMAIN frame}

\* the keys of column col that occur in frame, ascending
SortKeys(frame, col) ==
    LET S == Keys(frame, col)
    IN  [i \in 1..Cardinality(S) |->
            CHOOSE k \in S :
                Cardinality({y \in S : KeyRank(col, y) < KeyRank(col, k)}) = i - 1]

FirstPos(frame, col, k) ==
    CHOOSE i \in DOMAIN frame :
        /\ frame[i][col] = k
        /\ \A j \in DOMAIN frame : frame[j][col] = k => i <= j

\* mutant: groupby(col, sort=False), keys in order of first occurrence
GroupBySumUnsorted(frame, col) ==
    LET S == Keys(frame, col)
        ks == [i \in 1..Cardinality(S) |->
                  CHOOSE k \in S :
                      Cardinality({y \in S : FirstPos(frame, col, y)
                                                < FirstPos(frame, col, k)}) = i - 1]
    IN  [i \in 1..Len(ks) |->
            [key |-> ks[i],
             visits |-> SumVisits(SelectSeq(frame, LAMBDA r : r[col] = ks[i]))]]

\* mutant: .count() instead of .sum()
GroupByCount(frame, col) ==
    LET ks == SortKeys(frame, col)
    IN  [i \in 1..Len(ks) |->
            [key |-> ks[i],
             visits |-> Len(SelectSeq(frame, LAMBDA r : r[col] = ks[i]))]]

\* frame.groupby(col)["visits"].sum().reset_index(): one row per key that
\* occurs, in ascending key order (groupby sorts its keys)
GroupBySum(frame, col) ==
    LET ks == SortKeys(frame, col)
    IN  [i \in 1..Len(ks) |->
            [key |-> ks[i],
             visits |-> SumVisits(SelectSeq(frame, LAMBDA r : r[col] = ks[i]))]]

IsDescending(t) == \A i \in 1..(Len(t) - 1) : t[i].visits >= t[i + 1].visits

Arrangements(t) ==
    {[i \in DOMAIN t |-> t[p[i]]] :
        p \in {q \in [DOMAIN t -> DOMAIN t] : \A i, j \in DOMAIN t : q[i] = q[j] => i = j}}

IsAscending(t) == \A i \in 1..(Len(t) - 1) : t[i].visits <= t[i + 1].visits

\* mutant: ascending=False left out
SortValuesAsc(t) == {s \in Arrangements(t) : IsAscending(s)}

\* mutant: the sort_values call left out
SortValuesSkipped(t) == {t}

\* t.sort_values(by="visits", ascending=False) with the default kind
\* "quicksort", which is not stable: every descending arrangement of the
\* rows is a possible result (they differ only in the order of ties)
SortValuesDesc(t) == {s \in Arrangements(t) : IsDescending(s)}

Tables(frame) ==
    {[trend |-> GroupBySum(frame, "date"),
      topPages |-> s,
      deviceShare |-> GroupBySum(frame, "device")] :
        s \in SortValuesDesc(GroupBySum(frame, "page"))}

(***************************************************************************)
(* State machine                                                           *)
(***************************************************************************)
Init ==
    /\ pc = "start"
    /\ df = <<>>
    /\ cpc = [c \in Callers |-> "idle"]
    /\ args = [c \in Callers |-> NoArgs]
    /\ filtered_df = [c \in Callers |-> <<>>]
    /\ ret = [c \in Callers |-> NoRet]

GenRecords ==
    [date : GenDates, page : GenPages, visits : GenVisits,
     device : GenDevices, location : GenLocations]

\* records that differ only in page, visits and device
PageRecords ==
    [date : {0}, page : AllPages, visits : GenVisits,
     device : GenDevices, location : {"USA"}]

SeqsUpTo(S, n) == UNION {[1..m -> S] : m \in 0..n}

\* the datasets tried: up to MaxLen arbitrary records, or up to MaxLen + 1
\* records over the three pages
GenDatasets == SeqsUpTo(GenRecords, MaxLen) \cup SeqsUpTo(PageRecords, MaxLen + 1)

\* line 17, df = pd.DataFrame(sample_data), for an arbitrary sample_data
Construct(data) ==
    /\ pc = "start"
    /\ pc' = "ready"
    /\ df' = data
    /\ UNCHANGED <<cpc, args, filtered_df, ret>>

\* lines 80-125 as one step
update_dashboard(c, selected_devices, selected_locations) ==
    /\ pc = "ready"
    /\ cpc[c] = "idle"
    /\ LET copy == df
           byDevice == ApplyFilter(copy, "device", selected_devices)
           byLocation == ApplyFilter(byDevice, "location", selected_locations)
       IN  /\ filtered_df' = [filtered_df EXCEPT ![c] = byLocation]
           /\ \E t \in Tables(byLocation) : ret' = [ret EXCEPT ![c] = t]
    /\ args' = [args EXCEPT ![c] =
                    [devices |-> selected_devices, locations |-> selected_locations]]
    /\ UNCHANGED <<pc, df, cpc>>

\* line 87: entry and filtered_df = df.copy()
Call(c, selected_devices, selected_locations) ==
    /\ pc = "ready"
    /\ cpc[c] = "idle"
    /\ cpc' = [cpc EXCEPT ![c] = "copied"]
    /\ args' = [args EXCEPT ![c] =
                    [devices |-> selected_devices, locations |-> selected_locations]]
    /\ filtered_df' = [filtered_df EXCEPT ![c] = df]
    /\ ret' = [ret EXCEPT ![c] = NoRet]
    /\ UNCHANGED <<pc, df>>

\* mutant: the device filter applied to the module-level df as well
FilterDevicesInPlace(c) ==
    /\ cpc[c] = "copied"
    /\ cpc' = [cpc EXCEPT ![c] = "devices"]
    /\ filtered_df' = [filtered_df EXCEPT ![c] =
                          ApplyFilter(filtered_df[c], "device", args[c].devices)]
    /\ df' = ApplyFilter(filtered_df[c], "device", args[c].devices)
    /\ UNCHANGED <<pc, args, ret>>

\* lines 90-91
FilterDevices(c) ==
    /\ cpc[c] = "copied"
    /\ cpc' = [cpc EXCEPT ![c] = "devices"]
    /\ filtered_df' = [filtered_df EXCEPT ![c] =
                          ApplyFilter(filtered_df[c], "device", args[c].devices)]
    /\ UNCHANGED <<pc, df, args, ret>>

\* mutant: the location filter applied to the module-level df as well
FilterLocationsInPlace(c) ==
    /\ cpc[c] = "devices"
    /\ cpc' = [cpc EXCEPT ![c] = "locations"]
    /\ filtered_df' = [filtered_df EXCEPT ![c] =
                          ApplyFilter(filtered_df[c], "location", args[c].locations)]
    /\ df' = ApplyFilter(filtered_df[c], "location", args[c].locations)
    /\ UNCHANGED <<pc, args, ret>>

\* lines 94-95
FilterLocations(c) ==
    /\ cpc[c] = "devices"
    /\ cpc' = [cpc EXCEPT ![c] = "locations"]
    /\ filtered_df' = [filtered_df EXCEPT ![c] =
                          ApplyFilter(filtered_df[c], "location", args[c].locations)]
    /\ UNCHANGED <<pc, df, args, ret>>

\* lines 100-125
Return(c) ==
    /\ cpc[c] = "locations"
    /\ cpc' = [cpc EXCEPT ![c] = "idle"]
    /\ \E t \in Tables(filtered_df[c]) : ret' = [ret EXCEPT ![c] = t]
    /\ UNCHANGED <<pc, df, args, filtered_df>>

\* line 17 for every dataset tried
ConstructAny ==
    /\ pc = "start"
    /\ \E data \in GenDatasets : Construct(data)

\* update_dashboard applied once to every pair of filter values
ApplyOnce ==
    /\ ret[1] = NoRet
    /\ \E sd \in FilterValues(GenDevicePool), sl \in FilterValues(GenLocationPool) :
           update_dashboard(1, sd, sl)

Next == ConstructAny \/ ApplyOnce

Spec == Init /\ [][Next]_vars

NextBuiltin ==
    \/ Construct(sample_data)
    \/ \E c \in Callers :
           \/ \E sd \in FilterValues(BuiltinDevicePool),
                 sl \in FilterValues(BuiltinLocationPool) : Call(c, sd, sl)
           \/ FilterDevices(c)
           \/ FilterLocations(c)
           \/ Return(c)

SpecBuiltin == Init /\ [][NextBuiltin]_vars

(***************************************************************************)
(* Properties                                                              *)
(***************************************************************************)
Returned(c) == cpc[c] = "idle" /\ ret[c] # NoRet

\* a dropdown value that restricts nothing: None or the empty list
Unrestricted(v) == v.none \/ v.items = {}

EmptyTables == [trend |-> <<>>, topPages |-> <<>>, deviceShare |-> <<>>]

\* C1: the totals of trend, of topPages and of deviceShare are equal, and
\* each equals the sum of visits over the records that survive the filter
C1_Conservation ==
    Returned(1) =>
        /\ SumVisits(ret[1].trend) = SumVisits(filtered_df[1])
        /\ SumVisits(ret[1].topPages) = SumVisits(filtered_df[1])
        /\ SumVisits(ret[1].deviceShare) = SumVisits(filtered_df[1])

C1_Witness ==
    /\ Returned(1)
    /\ Len(ret[1].topPages) = 2
    /\ Len(ret[1].deviceShare) = 1
    /\ SumVisits(filtered_df[1]) = 2
    /\ SumVisits(df) = 3

\* a record survives iff each dimension is unrestricted or lists its value
Survives(r, a) ==
    /\ Unrestricted(a.devices) \/ r.device \in a.devices.items
    /\ Unrestricted(a.locations) \/ r.location \in a.locations.items

\* C2: the selection is exactly the records that pass both filters, in
\* dataset order; with both filters absent or empty it is the whole dataset
\* and the tables are those of the whole dataset
C2_Selection ==
    Returned(1) =>
        /\ filtered_df[1] = SelectSeq(df, LAMBDA r : Survives(r, args[1]))
        /\ (Unrestricted(args[1].devices) /\ Unrestricted(args[1].locations)) =>
               /\ filtered_df[1] = df
               /\ ret[1] \in Tables(df)

C2_Witness ==
    /\ Returned(1)
    /\ args[1].devices = List({}) /\ Truthy(args[1].locations)
    /\ Len(df) = 2 /\ Len(filtered_df[1]) = 1
    /\ df[1].device # df[2].device

\* C3: a non-empty list of values that occur in no record, and more
\* generally an empty selection, gives three empty tables
C3_UnmatchedEmpty ==
    Returned(1) =>
        /\ (Truthy(args[1].devices)
              /\ args[1].devices.items \cap Keys(df, "device") = {}) => ret[1] = EmptyTables
        /\ (Truthy(args[1].locations)
              /\ args[1].locations.items \cap Keys(df, "location") = {}) => ret[1] = EmptyTables
        /\ filtered_df[1] = <<>> => ret[1] = EmptyTables

C3_Witness ==
    /\ Returned(1)
    /\ args[1].devices = List({"Smartwatch"})
    /\ args[1].locations = None
    /\ Len(df) = 2
    /\ ret[1] = EmptyTables

\* C4: topPages has exactly one entry per page of the selection and its
\* totals never increase from one entry to the next
C4_TopPagesDescending ==
    Returned(1) =>
        LET t == ret[1].topPages
        IN  /\ \A p \in Keys(filtered_df[1], "page") :
                   Cardinality({i \in DOMAIN t : t[i].key = p}) = 1
            /\ \A i \in DOMAIN t : t[i].key \in Keys(filtered_df[1], "page")
            /\ \A i \in 1..(Len(t) - 1) : t[i].visits >= t[i + 1].visits

C4_Witness ==
    /\ Returned(1)
    /\ Len(ret[1].topPages) = 3
    /\ ret[1].topPages[1].key = "Products"
    /\ ret[1].topPages[3].key = "Contact"
    /\ ret[1].topPages[1].visits > ret[1].topPages[3].visits

\* C5 as stated: pages with equal totals appear in the order in which
\* their first records occur in the dataset
C5_TiesInEncounterOrder ==
    Returned(1) =>
        LET t == ret[1].topPages
        IN  \A i, j \in DOMAIN t :
                (/\ t[i].visits = t[j].visits
                 /\ FirstPos(filtered_df[1], "page", t[i].key)
                        < FirstPos(filtered_df[1], "page", t[j].key)) => i < j

\* C5 as amended: pages with equal totals form one run of topPages, no page
\* with another total between them; their order inside the run is not fixed
C5_TiesContiguous ==
    Returned(1) =>
        LET t == ret[1].topPages
        IN  \A i, j \in DOMAIN t :
                (i < j /\ t[i].visits = t[j].visits) =>
                    \A k \in i..j : t[k].visits = t[i].visits

C5_Witness ==
    /\ Returned(1)
    /\ Len(ret[1].topPages) = 3
    /\ ret[1].topPages[1].visits = ret[1].topPages[2].visits
    /\ ret[1].topPages[3].key = "Home"
    /\ ret[1].topPages[3].visits < ret[1].topPages[2].visits
    /\ ret[1].topPages[1].key = "Contact"
    /\ FirstPos(filtered_df[1], "page", "Products") < FirstPos(filtered_df[1], "page", "Contact")

\* C6: trend is strictly ascending by date, has an entry for exactly the
\* dates of the selection, and each entry holds the sum of that date's visits
C6_TrendByDate ==
    Returned(1) =>
        LET t == ret[1].trend
        IN  /\ \A i \in 1..(Len(t) - 1) : t[i].key < t[i + 1].key
            /\ {t[i].key : i \in DOMAIN t} = Keys(filtered_df[1], "date")
            /\ \A i \in DOMAIN t :
                   t[i].visits =
                       SumVisits(SelectSeq(filtered_df[1], LAMBDA r : r.date = t[i].key))

C6_Witness ==
    /\ Returned(1)
    /\ Len(ret[1].trend) = 2
    /\ filtered_df[1][1].date = 1
    /\ Truthy(args[1].devices)
    /\ ret[1].trend[1].visits = 1

Triple(k) == [page |-> PageList[k], device |-> DeviceList[k], location |-> LocationList[k]]

====
